---- MODULE Spec2Model ----
(***************************************************************************)
(* Model of src/main.py: the polar-plant EC dashboard.                     *)
(*                                                                         *)
(* Text is a sequence of Unicode code points (the real ones), so that the  *)
(* composed (NFC) and decomposed (NFD) spellings of a Korean name are      *)
(* different values, as they are to Python's `in`, `==` and dict lookup.   *)
(* A directory is the sequence of its entries in iteration order.  A       *)
(* DataFrame is a record [cols, rows]; a dict is [none, keys, tab] where   *)
(* keys is the insertion order and none tells Python's None from {}.       *)
(* Column names are spelled in ASCII: "school" is the column "학교" and    *)
(* "weight" is the column "생중량(g)".                                     *)
(***************************************************************************)
EXTENDS Integers, Sequences, FiniteSets, TLC

VARIABLES
    dir,            \* DATA_DIR.iterdir(): the entries, in iteration order
    pc,             \* position of the script (or of find_files' loop)
    keyword,        \* find_files: its keyword argument
    i,              \* find_files: index of the next entry of the loop
    result,         \* find_files: the list being built
    env_data,       \* line 72
    grow_data,      \* line 73
    school_option,  \* line 81
    out,            \* the widgets rendered so far, in order
    info_df,        \* line 93
    total_cnt,      \* line 99
    avg_temp,       \* line 100
    avg_hum,        \* line 101
    avg_env,        \* line 114
    raw,            \* line 137
    grow_all,       \* line 149
    ec_mean,        \* line 152
    best_val,       \* line 153
    metric_text,    \* line 156: the text of the metric
    err             \* the exception that ended the run, "" if none

vars == <<dir, pc, keyword, i, result, env_data, grow_data, school_option, out,
          info_df, total_cnt, avg_temp, avg_hum, avg_env, raw, grow_all,
          ec_mean, best_val, metric_text, err>>

----------------------------------------------------------------------------
(* Bounds of the model.                                                    *)
MaxFiles == 3
MaxRows == 2
MaxSheets == 2

----------------------------------------------------------------------------
(* unicodedata.normalize on Hangul and ASCII text: the conjoining-jamo     *)
(* arithmetic of the Unicode standard (section 3.12).                      *)
SBase == 44032
LBase == 4352
VBase == 4449
TBase == 4519
LCount == 19
VCount == 21
TCount == 28
NCount == 588
SCount == 11172

IsSyllable(c) == c >= SBase /\ c < SBase + SCount
IsL(c) == c >= LBase /\ c < LBase + LCount
IsV(c) == c >= VBase /\ c < VBase + VCount
IsT(c) == c > TBase /\ c < TBase + TCount

Decompose(c) ==
    IF IsSyllable(c)
    THEN LET SIndex == c - SBase
             L == LBase + (SIndex \div NCount)
             V == VBase + ((SIndex % NCount) \div TCount)
             T == TBase + (SIndex % TCount)
         IN  IF T = TBase THEN <<L, V>> ELSE <<L, V, T>>
    ELSE <<c>>

RECURSIVE NFD(_)
NFD(t) == IF t = <<>> THEN <<>> ELSE Decompose(Head(t)) \o NFD(Tail(t))

ComposeStep(acc, c) ==
    IF acc = <<>> THEN <<c>>
    ELSE LET last == acc[Len(acc)]
             init == SubSeq(acc, 1, Len(acc) - 1)
         IN  IF IsL(last) /\ IsV(c)
             THEN Append(init, SBase + ((last - LBase) * VCount + (c - VBase)) * TCount)
             ELSE IF IsSyllable(last) /\ (last - SBase) % TCount = 0 /\ IsT(c)
             THEN Append(init, last + (c - TBase))
             ELSE Append(acc, c)

RECURSIVE Compose(_, _)
Compose(acc, t) == IF t = <<>> THEN acc ELSE Compose(ComposeStep(acc, Head(t)), Tail(t))

NFC(t) == Compose(<<>>, NFD(t))

normalize_text_raw(t) == t

normalize_text(t) == NFC(NFD(t))

(* Python's `a in b` on str.                                               *)
str_in(a, b) ==
    \E k \in 0..(Len(b) - Len(a)) : SubSeq(b, k + 1, k + Len(a)) = a

(* s.split("_")[0]: the text before the first '_' (all of s without one).  *)
RECURSIVE split0(_)
split0(s) ==
    IF s = <<>> \/ Head(s) = 95 THEN <<>> ELSE <<Head(s)>> \o split0(Tail(s))

----------------------------------------------------------------------------
(* The strings of the program and of the data directory.                   *)
KW_ENV == <<54872, 44221, 45936, 51060, 53552>>                   \* "환경데이터"
KW_GROW == <<49373, 50977, 44208, 44284, 45936, 51060, 53552>>    \* "생육결과데이터"
ALL == <<51204, 52404>>                                           \* "전체"
Songdo == <<49569, 46020, 44256>>                                 \* "송도고"
Haneul == <<54616, 45720, 44256>>                                 \* "하늘고"
Ara == <<50500, 46972, 44256>>                                    \* "아라고"
Dongsan == <<46041, 49328, 44256>>                                \* "동산고"
Gita == <<44592, 53440, 44256>>                                   \* "기타고", a site that is not configured
HaneulNFD == <<4370, 4449, 4354, 4467, 4527, 4352, 4457>>         \* "하늘고", decomposed

SCHOOL_KEYS == <<Songdo, Haneul, Ara, Dongsan>>
SCHOOL_EC == [k \in {Songdo, Haneul, Ara, Dongsan} |->
                 CASE k = Songdo -> 1 [] k = Haneul -> 2 [] k = Ara -> 4 [] OTHER -> 8]

\* "송도고_환경데이터.csv"
E1 == <<49569, 46020, 44256, 95, 54872, 44221, 45936, 51060, 53552, 46, 99, 115, 118>>
\* "송도고_환경데이터.csv", decomposed (as a file system that stores NFD names lists it)
E2 == <<4361, 4457, 4540, 4355, 4457, 4352, 4457, 95, 4370, 4458, 4523, 4352, 4455,
        4540, 4355, 4454, 4363, 4469, 4368, 4453, 46, 99, 115, 118>>
\* "송도고_환경데이터2.csv"
E3 == <<49569, 46020, 44256, 95, 54872, 44221, 45936, 51060, 53552, 50, 46, 99, 115, 118>>
\* "하늘고_환경데이터.csv"
E4 == <<54616, 45720, 44256, 95, 54872, 44221, 45936, 51060, 53552, 46, 99, 115, 118>>
\* "A_환경데이터.csv"
A1 == <<65, 95, 54872, 44221, 45936, 51060, 53552, 46, 99, 115, 118>>
\* "4개교_생육결과데이터.xlsx"
G1 == <<52, 44060, 44368, 95, 49373, 50977, 44208, 44284, 45936, 51060, 53552, 46,
        120, 108, 115, 120>>
\* "생육결과데이터_b.xlsx", decomposed
G2 == <<4361, 4450, 4540, 4363, 4466, 4520, 4352, 4455, 4527, 4352, 4458, 4355, 4454,
        4363, 4469, 4368, 4453, 95, 98, 46, 120, 108, 115, 120>>
\* "B_x.csv"
X1 == <<66, 95, 120, 46, 99, 115, 118>>

KW_ENV_NFD == <<4370, 4458, 4523, 4352, 4455, 4540, 4355, 4454, 4363, 4469, 4368, 4453>>
\* the jamo of "화": a prefix of the jamo of "환", yet "화" is not in "환경데이터"
KW_JAMO == <<4370, 4458>>
KW_X == <<120>>                                                   \* "x"

EnvNames == {E1, E2, E3, E4, A1}
GrowNames == {G1, G2}
FileNames == EnvNames \cup GrowNames \cup {X1}
Keywords == {KW_ENV, KW_ENV_NFD, KW_GROW, KW_JAMO, KW_X}

----------------------------------------------------------------------------
(* Contents of the files.  A CSV file is its data rows (the header with    *)
(* the columns time, temperature, humidity, ph, ec is always there); a     *)
(* workbook is the sequence of its sheets, each a name and the fresh       *)
(* weights of its rows.                                                    *)
R1 == [time |-> "2025-05-01 00:00", temperature |-> 20, humidity |-> 50, ph |-> 6, ec |-> 1]
R2 == [time |-> "2025-05-01 00:10", temperature |-> 23, humidity |-> 40, ph |-> 7, ec |-> 2]
RawEnvRows == {R1, R2}
Weights == {1, 3}
SheetNames == {Songdo, Haneul, Gita}

BSeq(S, n) == UNION {[1..k -> S] : k \in 0..n}
Injective(s) == \A a, b \in DOMAIN s : a # b => s[a] # s[b]

CsvOf(name) ==
    CASE name = E1 -> <<R1, R2>>
      [] name = E2 -> <<R2>>
      [] name = E3 -> <<>>
      [] name = E4 -> <<R2, R1>>
      [] name = A1 -> <<R1>>
      [] OTHER -> <<>>

\* G1 holds the groups of the spec's example: 1.0: [1,2,3], 2.0: [5,6,7], 4.0: [2,2]
SheetsOf(name) ==
    CASE name = G1 -> << [name |-> Songdo, rows |-> <<1, 2, 3>>],
                         [name |-> Haneul, rows |-> <<5, 6, 7>>],
                         [name |-> Ara, rows |-> <<2, 2>>] >>
      [] name = G2 -> << [name |-> HaneulNFD, rows |-> <<3>>],
                         [name |-> Gita, rows |-> <<4, 2>>] >>
      [] OTHER -> <<>>

File(name) == [name |-> name, csv |-> CsvOf(name), sheets |-> SheetsOf(name)]
CsvFile(name, rows) == [name |-> name, csv |-> rows, sheets |-> <<>>]
XlsxFile(name, sheets) == [name |-> name, csv |-> <<>>, sheets |-> sheets]

\* every listing of at most n entries with distinct names, in every order
Listings(n) == {[k \in DOMAIN s |-> File(s[k])] : s \in {t \in BSeq(FileNames, n) : Injective(t)}}

Workbooks ==
    {w \in BSeq([name : SheetNames, rows : BSeq(Weights, MaxRows)], MaxSheets) :
        /\ Len(w) >= 1
        /\ \A a, b \in DOMAIN w : a # b => w[a].name # w[b].name}

Orders(S) == {s \in [1..Cardinality(S) -> S] : Injective(s)}

\* two environment files of the same site with any contents, and the workbook
EnvTableDirs ==
    UNION {Orders({CsvFile(E1, c1), CsvFile(E3, c2), File(G1)}) :
              c1 \in BSeq(RawEnvRows, MaxRows), c2 \in BSeq(RawEnvRows, MaxRows)}

\* one environment file and a workbook with any sheets
WorkbookDirs == {<<File(E1), XlsxFile(G1, w)>> : w \in Workbooks}

----------------------------------------------------------------------------
(* Floats: a float is NaN or a non-negative fraction in lowest terms.      *)
RECURSIVE GCD(_, _)
GCD(a, b) == IF b = 0 THEN a ELSE GCD(b, a % b)

NaN == [nan |-> TRUE, num |-> 0, den |-> 1]
Rat(n, d) == LET g == GCD(n, d) IN [nan |-> FALSE, num |-> n \div g, den |-> d \div g]
Float(n) == Rat(n, 1)
Less(a, b) == a.num * b.den < b.num * a.den

RECURSIVE Sum(_)
Sum(xs) == IF xs = <<>> THEN 0 ELSE Head(xs) + Sum(Tail(xs))

\* Series.mean()
mean(xs) == IF xs = <<>> THEN NaN ELSE Rat(Sum(xs), Len(xs))

\* Series.max() of floats: NaN is skipped, NaN when nothing is left
RECURSIVE series_max(_)
series_max(xs) ==
    IF xs = <<>> THEN NaN
    ELSE LET m == series_max(Tail(xs))
             x == Head(xs)
         IN  IF x.nan THEN m
             ELSE IF m.nan THEN x
             ELSE IF Less(m, x) THEN x ELSE m

\* f"{x:.2f}": the value in hundredths, rounded half to even; "nan" for NaN
fmt2(x) ==
    IF x.nan THEN [nan |-> TRUE, cents |-> 0]
    ELSE LET q == (x.num * 100) \div x.den
             r == (x.num * 100) % x.den
         IN  [nan |-> FALSE,
              cents |-> IF 2 * r > x.den THEN q + 1
                        ELSE IF 2 * r = x.den THEN q + (q % 2)
                        ELSE q]

----------------------------------------------------------------------------
(* DataFrames and dicts.                                                   *)
EnvCols == {"time", "temperature", "humidity", "ph", "ec"}
GrowCols == {"weight"}

None == [none |-> TRUE, keys |-> <<>>, tab |-> <<>>]
EmptyDict == [none |-> FALSE, keys |-> <<>>, tab |-> <<>>]
is_none(d) == d.none

\* d.setdefault(k, v): an old key keeps its value
dict_set_keep(d, k, v) ==
    [none |-> FALSE,
     keys |-> IF k \in DOMAIN d.tab THEN d.keys ELSE Append(d.keys, k),
     tab  |-> [x \in (DOMAIN d.tab) \cup {k} |->
                 IF x \in DOMAIN d.tab THEN d.tab[x] ELSE v]]

\* d[k] = v: a new key goes last, an old key keeps its place
dict_set(d, k, v) ==
    [none |-> FALSE,
     keys |-> IF k \in DOMAIN d.tab THEN d.keys ELSE Append(d.keys, k),
     tab  |-> [x \in (DOMAIN d.tab) \cup {k} |-> IF x = k THEN v ELSE d.tab[x]]]

\* d.values()
values(d) == [k \in DOMAIN d.keys |-> d.tab[d.keys[k]]]

DataFrame(cols, rows) == [cols |-> cols, rows |-> rows]

\* df[col] = vals, a value for each row
setitem(df, col, vals) ==
    [cols |-> df.cols \cup {col},
     rows |-> [k \in DOMAIN df.rows |->
                 [c \in df.cols \cup {col} |->
                     IF c = col THEN vals[k] ELSE df.rows[k][c]]]]

\* a scalar assigned to a column: the same value at each row
broadcast(df, v) == [k \in DOMAIN df.rows |-> v]

\* df[col] as a list
column(df, col) == [k \in DOMAIN df.rows |-> df.rows[k][col]]

\* pd.concat(frames): a new frame with the rows of the frames, in order
RECURSIVE concat_rows(_)
concat_rows(frames) ==
    IF frames = <<>> THEN <<>> ELSE Head(frames).rows \o concat_rows(Tail(frames))

concat(frames) ==
    [cols |-> UNION {frames[k].cols : k \in DOMAIN frames},
     rows |-> concat_rows(frames)]

\* pd.read_csv(f)
read_csv(f) == DataFrame(EnvCols, f.csv)

\* pd.to_datetime on a cell of the time column: minutes since the first sample
to_datetime(s) ==
    CASE s = "2025-05-01 00:00" -> 0
      [] s = "2025-05-01 00:10" -> 10

\* pd.ExcelFile(f).sheet_names
sheet_names(f) == [k \in DOMAIN f.sheets |-> f.sheets[k].name]

\* pd.read_excel(f, sheet_name=sheet)
read_excel(f, sheet) ==
    LET k == CHOOSE n \in DOMAIN f.sheets : f.sheets[n].name = sheet
    IN  DataFrame(GrowCols, [n \in DOMAIN f.sheets[k].rows |-> [weight |-> f.sheets[k].rows[n]]])

----------------------------------------------------------------------------
(* find_files, lines 36-41, as a function of the listing.                  *)
RECURSIVE find_loop(_, _, _)
find_loop(directory, kw, res) ==
    IF directory = <<>> THEN res
    ELSE find_loop(Tail(directory), kw,
                   IF str_in(normalize_text(kw), normalize_text(Head(directory).name))
                   THEN Append(res, Head(directory))
                   ELSE res)

find_files(directory, kw) == find_loop(directory, kw, <<>>)

(* load_environment_data, lines 45-56.                                     *)
RECURSIVE env_loop(_, _)
env_loop(files, data) ==
    IF files = <<>> THEN data
    ELSE LET f == Head(files)
             school == split0(f.name)
             df0 == read_csv(f)
             df1 == setitem(df0, "time", [k \in DOMAIN df0.rows |-> to_datetime(df0.rows[k].time)])
             df2 == setitem(df1, "school", broadcast(df1, school))
         IN  env_loop(Tail(files), dict_set(data, school, df2))

\* the loader without its lines 47-48
load_environment_data_noguard(d) == env_loop(find_files(d, KW_ENV), EmptyDict)

load_environment_data(d) ==
    LET env_files == find_files(d, KW_ENV)
    IN  IF env_files = <<>> THEN None ELSE env_loop(env_files, EmptyDict)

(* load_growth_data, lines 59-69.                                          *)
RECURSIVE grow_loop(_, _, _)
grow_loop(xlsx, sheets, data) ==
    IF sheets = <<>> THEN data
    ELSE LET sheet == Head(sheets)
             df0 == read_excel(xlsx, sheet)
             df1 == setitem(df0, "school", broadcast(df0, sheet))
         IN  grow_loop(xlsx, Tail(sheets), dict_set(data, sheet, df1))

\* the loader reading the last matched file
load_growth_data_last(d) ==
    LET xlsx_files == find_files(d, KW_GROW)
    IN  IF xlsx_files = <<>> THEN None
        ELSE grow_loop(xlsx_files[Len(xlsx_files)],
                       sheet_names(xlsx_files[Len(xlsx_files)]), EmptyDict)

load_growth_data(d) ==
    LET xlsx_files == find_files(d, KW_GROW)
    IN  IF xlsx_files = <<>> THEN None
        ELSE grow_loop(xlsx_files[1], sheet_names(xlsx_files[1]), EmptyDict)

----------------------------------------------------------------------------
(* The script, lines 71-172.                                               *)

\* line 75: env_data is None or grow_data is None
halt_and(env, grow) == is_none(env) /\ is_none(grow)

halt(env, grow) == is_none(env) \/ is_none(grow)

\* d.get(k, default)
dict_get(d, k, default) == IF k \in DOMAIN d.tab THEN d.tab[k] ELSE default

\* line 125: env_data[school_option] raises KeyError when the key is missing
lookup_fails_never(env, k) == FALSE

lookup_fails(env, k) == k \notin DOMAIN env.tab

\* len(x) of a DataFrame (its rows) or of a list
pylen(x) == IF "rows" \in DOMAIN x THEN Len(x.rows) ELSE Len(x)

\* lines 93-96
info_rows(grow) ==
    [n \in DOMAIN SCHOOL_KEYS |->
        [name  |-> SCHOOL_KEYS[n],
         ec    |-> Float(SCHOOL_EC[SCHOOL_KEYS[n]]),
         count |-> pylen(dict_get(grow, SCHOOL_KEYS[n], <<>>)),
         color |-> ""]]

\* line 99: sum(len(v) for v in grow_data.values())
count_all(grow) == Sum([k \in DOMAIN grow.keys |-> pylen(grow.tab[grow.keys[k]])])

\* the rows of df whose column col is v
rows_where(df, col, v) == SelectSeq(df.rows, LAMBDA r : r[col] = v)

\* line 114: groupby("school").mean(numeric_only=True), one row for each site that has rows
groupby_school_mean(df) ==
    [s \in {df.rows[k].school : k \in DOMAIN df.rows} |->
        [c \in {"temperature", "humidity", "ph", "ec"} |->
            mean([k \in DOMAIN rows_where(df, "school", s) |->
                     rows_where(df, "school", s)[k][c]])]]

\* line 150: Series.map(SCHOOL_EC): NaN for a value that is not a key
map_ec(school) == IF school \in DOMAIN SCHOOL_EC THEN Float(SCHOOL_EC[school]) ELSE NaN

\* lines 149-150: the frame with its EC column
with_ec(df) == setitem(df, "EC", [k \in DOMAIN df.rows |-> map_ec(df.rows[k].school)])

\* the ascending sequence of a finite set of floats that are not NaN
RECURSIVE sorted(_)
sorted(S) ==
    IF S = {} THEN <<>>
    ELSE LET m == CHOOSE x \in S : \A y \in S : ~Less(y, x)
         IN  <<m>> \o sorted(S \ {m})

\* line 152: groupby("EC")["weight"].mean().reset_index(); rows whose EC is NaN are dropped
groupby_ec_mean(df) ==
    LET ecs == sorted({df.rows[k].EC : k \in DOMAIN df.rows} \ {NaN})
    IN  [n \in DOMAIN ecs |->
            [EC |-> ecs[n],
             weight |-> mean([k \in DOMAIN rows_where(df, "EC", ecs[n]) |->
                                rows_where(df, "EC", ecs[n])[k].weight])]]

\* line 153: ec_mean["weight"].max()
best_of_all(means, df) == series_max([k \in DOMAIN df.rows |-> Float(df.rows[k].weight)])

best_of(means, df) == series_max([n \in DOMAIN means |-> means[n].weight])

\* The frames of the growth mapping after lines 149-150: pd.concat built a new
\* frame, so assigning its EC column leaves the frames of the mapping alone.
after_join_inplace(grow) ==
    [grow EXCEPT !.tab = [k \in DOMAIN grow.tab |-> with_ec(grow.tab[k])]]

after_join(grow) == grow

NoFrame == DataFrame({}, <<>>)

Locals0 ==
    /\ school_option = <<>>
    /\ info_df = <<>>
    /\ total_cnt = 0
    /\ avg_temp = NaN
    /\ avg_hum = NaN
    /\ avg_env = <<>>
    /\ raw = NoFrame
    /\ grow_all = NoFrame
    /\ ec_mean = <<>>
    /\ best_val = NaN
    /\ metric_text = fmt2(NaN)
    /\ err = ""
    /\ env_data = None
    /\ grow_data = None

\* lines 10-20: st.set_page_config and the font style, rendered before the loaders run
Preamble == <<"page_config", "style">>

Init ==
    /\ dir \in Listings(MaxFiles) \cup EnvTableDirs \cup WorkbookDirs
    /\ pc = "load_env"
    /\ keyword = <<>>
    /\ i = 0
    /\ result = <<>>
    /\ out = Preamble
    /\ Locals0

\* line 72
LoadEnv ==
    /\ pc = "load_env"
    /\ env_data' = load_environment_data(dir)
    /\ pc' = "load_grow"
    /\ UNCHANGED <<dir, keyword, i, result, grow_data, school_option, out, info_df,
                   total_cnt, avg_temp, avg_hum, avg_env, raw, grow_all, ec_mean,
                   best_val, metric_text, err>>

\* line 73
LoadGrow ==
    /\ pc = "load_grow"
    /\ grow_data' = load_growth_data(dir)
    /\ pc' = "check"
    /\ UNCHANGED <<dir, keyword, i, result, env_data, school_option, out, info_df,
                   total_cnt, avg_temp, avg_hum, avg_env, raw, grow_all, ec_mean,
                   best_val, metric_text, err>>

\* lines 75-77: st.error and st.stop
Halt ==
    /\ pc = "check"
    /\ halt(env_data, grow_data)
    /\ out' = Append(out, "error")
    /\ pc' = "stopped"
    /\ UNCHANGED <<dir, keyword, i, result, env_data, grow_data, school_option, info_df,
                   total_cnt, avg_temp, avg_hum, avg_env, raw, grow_all, ec_mean,
                   best_val, metric_text, err>>

\* lines 80-86: the selection is any of the options of the selectbox
Sidebar ==
    /\ pc = "check"
    /\ ~halt(env_data, grow_data)
    /\ \E opt \in {ALL} \cup {SCHOOL_KEYS[n] : n \in DOMAIN SCHOOL_KEYS} :
          school_option' = opt
    /\ out' = out \o <<"sidebar.selectbox", "title", "tabs">>
    /\ pc' = "tab1"
    /\ UNCHANGED <<dir, keyword, i, result, env_data, grow_data, info_df,
                   total_cnt, avg_temp, avg_hum, avg_env, raw, grow_all, ec_mean,
                   best_val, metric_text, err>>

\* lines 89-108
Tab1 ==
    /\ pc = "tab1"
    /\ info_df' = info_rows(grow_data)
    /\ total_cnt' = count_all(grow_data)
    /\ avg_temp' = mean(column(concat(values(env_data)), "temperature"))
    /\ avg_hum' = mean(column(concat(values(env_data)), "humidity"))
    /\ out' = out \o <<"tab1.table", "tab1.metrics">>
    /\ pc' = "tab2"
    /\ UNCHANGED <<dir, keyword, i, result, env_data, grow_data, school_option,
                   avg_env, raw, grow_all, ec_mean, best_val, metric_text, err>>

\* lines 111-143, when the selected site is in the environment mapping (or is "all")
Tab2 ==
    /\ pc = "tab2"
    /\ school_option = ALL \/ ~lookup_fails(env_data, school_option)
    /\ avg_env' = groupby_school_mean(concat(values(env_data)))
    /\ raw' = concat(values(env_data))
    /\ out' = out \o <<"tab2.chart">>
                  \o (IF school_option # ALL THEN <<"tab2.chart2">> ELSE <<>>)
                  \o <<"tab2.dataframe", "tab2.download">>
    /\ pc' = "tab3"
    /\ UNCHANGED <<dir, keyword, i, result, env_data, grow_data, school_option, info_df,
                   total_cnt, avg_temp, avg_hum, grow_all, ec_mean, best_val,
                   metric_text, err>>

\* lines 111-125, when env_data[school_option] raises KeyError
Tab2KeyError ==
    /\ pc = "tab2"
    /\ school_option # ALL
    /\ lookup_fails(env_data, school_option)
    /\ avg_env' = groupby_school_mean(concat(values(env_data)))
    /\ out' = out \o <<"tab2.chart">>
    /\ err' = "KeyError"
    /\ pc' = "crashed"
    /\ UNCHANGED <<dir, keyword, i, result, env_data, grow_data, school_option, info_df,
                   total_cnt, avg_temp, avg_hum, raw, grow_all, ec_mean, best_val,
                   metric_text>>

\* lines 146-172
Tab3 ==
    /\ pc = "tab3"
    /\ LET joined == with_ec(concat(values(grow_data)))
           means == groupby_ec_mean(joined)
       IN  /\ grow_all' = joined
           /\ ec_mean' = means
           /\ best_val' = best_of(means, joined)
           /\ metric_text' = fmt2(best_of(means, joined))
    /\ grow_data' = after_join(grow_data)
    /\ out' = out \o <<"tab3.metric", "tab3.bar", "tab3.box", "tab3.dataframe",
                       "tab3.download">>
    /\ pc' = "done"
    /\ UNCHANGED <<dir, keyword, i, result, env_data, school_option, info_df,
                   total_cnt, avg_temp, avg_hum, avg_env, raw, err>>

Next == LoadEnv \/ LoadGrow \/ Halt \/ Sidebar \/ Tab1 \/ Tab2 \/ Tab2KeyError \/ Tab3

Spec == Init /\ [][Next]_vars

----------------------------------------------------------------------------
(* find_files on its own: any listing, any keyword, one entry at a step.   *)
InitFind ==
    /\ dir \in Listings(MaxFiles)
    /\ keyword \in Keywords
    /\ pc = "find"
    /\ i = 1
    /\ result = <<>>
    /\ out = <<>>
    /\ Locals0

\* lines 38-40: one turn of the loop
FindIter ==
    /\ pc = "find"
    /\ i <= Len(dir)
    /\ result' = IF str_in(normalize_text(keyword), normalize_text(dir[i].name))
                 THEN Append(result, dir[i])
                 ELSE result
    /\ i' = i + 1
    /\ UNCHANGED <<dir, pc, keyword, env_data, grow_data, school_option, out, info_df,
                   total_cnt, avg_temp, avg_hum, avg_env, raw, grow_all, ec_mean,
                   best_val, metric_text, err>>

\* line 41
FindReturn ==
    /\ pc = "find"
    /\ i > Len(dir)
    /\ pc' = "found"
    /\ UNCHANGED <<dir, keyword, i, result, env_data, grow_data, school_option, out,
                   info_df, total_cnt, avg_temp, avg_hum, avg_env, raw, grow_all,
                   ec_mean, best_val, metric_text, err>>

NextFind == FindIter \/ FindReturn

SpecFind == InitFind /\ [][NextFind]_vars

----------------------------------------------------------------------------
(* Reference definitions for the properties: what the directory holds,     *)
(* stated on the listing itself.                                           *)
Range(s) == {s[k] : k \in DOMAIN s}

\* the entry's name, in composed form, contains the keyword in composed form
NameHas(f, kw) == str_in(NFC(kw), NFC(f.name))

Matching(d, kw) == SelectSeq(d, LAMBDA f : NameHas(f, kw))

\* both loaders have returned and nothing has been rendered (after line 73)
Loaded == pc = "check"
GrowLoaded == pc \in {"check", "stopped", "tab1", "tab2", "tab3", "done", "crashed"}

\* the index in d of the last entry of idx
LastOf(idx) == CHOOSE k \in idx : \A j \in idx : j <= k

\* the index in dir of the last environment file whose name starts with site S
LastEnvIdx(S) ==
    LastOf({k \in DOMAIN dir : NameHas(dir[k], KW_ENV) /\ split0(dir[k].name) = S})

\* a row of a CSV file as the loader keeps it for site S
LoadedEnvRow(r, S) ==
    [time |-> to_datetime(r.time), temperature |-> r.temperature,
     humidity |-> r.humidity, ph |-> r.ph, ec |-> r.ec, school |-> S]

----------------------------------------------------------------------------
(* C1: a loader returns None, never an empty mapping, when no name in the  *)
(* directory matches its keyword; when a name matches it returns a mapping,*)
(* and a matched file (or sheet) without data rows gives its site a table  *)
(* with the columns and no rows.                                           *)
C1_UnavailableOrMapping ==
    Loaded =>
        LET envs == Matching(dir, KW_ENV)
            books == Matching(dir, KW_GROW)
        IN  /\ IF envs = <<>>
               THEN env_data = None /\ env_data # EmptyDict
               ELSE /\ ~env_data.none
                    /\ env_data.keys # <<>>
                    /\ \A k \in DOMAIN envs :
                          LET S == split0(envs[k].name)
                          IN  /\ S \in DOMAIN env_data.tab
                              /\ env_data.tab[S].cols = EnvCols \cup {"school"}
                              /\ (/\ envs[k].csv = <<>>
                                  /\ \A j \in DOMAIN envs : j > k => split0(envs[j].name) # S)
                                 => env_data.tab[S].rows = <<>>
            /\ IF books = <<>>
               THEN grow_data = None /\ grow_data # EmptyDict
               ELSE /\ ~grow_data.none
                    /\ \A sh \in Range(books[1].sheets) :
                          /\ sh.name \in DOMAIN grow_data.tab
                          /\ grow_data.tab[sh.name].cols = GrowCols \cup {"school"}
                          /\ sh.rows = <<>> => grow_data.tab[sh.name].rows = <<>>

\* the directory has entries but no workbook, and a matched CSV file has no rows
C1_Witness ==
    /\ pc = "check"
    /\ dir # <<>>
    /\ grow_data = None
    /\ ~env_data.none
    /\ \E S \in DOMAIN env_data.tab :
          env_data.tab[S].rows = <<>> /\ "time" \in env_data.tab[S].cols

(* C2: when a loader result is None the run renders the error and stops:   *)
(* no sidebar, table, metric, chart or export is rendered unless both      *)
(* results are available.                                                  *)
C2_HaltBeforeRendering ==
    /\ (\E k \in DOMAIN out : out[k] \notin {"page_config", "style", "error"})
          => ~env_data.none /\ ~grow_data.none
    /\ (GrowLoaded /\ pc # "check" /\ (env_data.none \/ grow_data.none)) =>
          pc = "stopped" /\ out = Preamble \o <<"error">>
    /\ pc = "stopped" => env_data.none \/ grow_data.none

\* only the environment dataset is missing, and the run has stopped on the error
C2_Witness ==
    /\ pc = "stopped"
    /\ env_data.none
    /\ ~grow_data.none
    /\ out = Preamble \o <<"error">>

(* C7: the environment mapping has one table for each distinct prefix of   *)
(* the matched names, and the table of a prefix is the contents of the     *)
(* last matched file with that prefix, with no row of an earlier file.     *)
C7_LastWriteWins ==
    Loaded =>
        LET envs == Matching(dir, KW_ENV)
            sites == {split0(envs[k].name) : k \in DOMAIN envs}
        IN  envs # <<>> =>
            /\ DOMAIN env_data.tab = sites
            /\ Range(env_data.keys) = sites
            /\ Len(env_data.keys) = Cardinality(sites)
            /\ \A S \in sites :
                  LET last == envs[LastOf({k \in DOMAIN envs : split0(envs[k].name) = S})]
                  IN  /\ Len(env_data.tab[S].rows) = Len(last.csv)
                      /\ \A n \in DOMAIN last.csv :
                            env_data.tab[S].rows[n] = LoadedEnvRow(last.csv[n], S)

\* two matched files with the same prefix and different contents were loaded
C7_Witness ==
    /\ pc = "check"
    /\ \E a, b \in DOMAIN dir :
          /\ a < b
          /\ NameHas(dir[a], KW_ENV) /\ NameHas(dir[b], KW_ENV)
          /\ split0(dir[a].name) = split0(dir[b].name)
          /\ dir[a].csv # dir[b].csv
          /\ dir[a].csv # <<>>
          /\ b = LastEnvIdx(split0(dir[b].name))
          /\ Len(env_data.tab[split0(dir[b].name)].rows) = Len(dir[b].csv)

(* C10: the growth mapping has one entry for each sheet of the first       *)
(* matched workbook, the rows of an entry are the rows of that sheet, each *)
(* tagged with the sheet's name, and nothing of another workbook is in it. *)
C10_FirstWorkbookOnly ==
    Loaded =>
        LET books == Matching(dir, KW_GROW)
        IN  books # <<>> =>
            /\ DOMAIN grow_data.tab = {sh.name : sh \in Range(books[1].sheets)}
            /\ grow_data.keys = [k \in DOMAIN books[1].sheets |-> books[1].sheets[k].name]
            /\ \A sh \in Range(books[1].sheets) :
                  /\ Len(grow_data.tab[sh.name].rows) = Len(sh.rows)
                  /\ \A n \in DOMAIN sh.rows :
                        grow_data.tab[sh.name].rows[n] =
                            [weight |-> sh.rows[n], school |-> sh.name]

\* two workbooks match, with different sheets, and the first one was loaded
C10_Witness ==
    /\ pc = "check"
    /\ Len(Matching(dir, KW_GROW)) = 2
    /\ Matching(dir, KW_GROW)[1].sheets # Matching(dir, KW_GROW)[2].sheets
    /\ ~grow_data.none
    /\ grow_data.keys = sheet_names(Matching(dir, KW_GROW)[1])

(* C3: find_files returns exactly the entries whose normalized name        *)
(* contains the normalized keyword, in listing order, and selects the same *)
(* entries when the names and the keyword are stored decomposed; for       *)
(* ["A_환경데이터.csv", "B_x.csv"] and "환경데이터" it returns the first.  *)
C3_FindExact ==
    pc = "found" =>
        LET d2 == [k \in DOMAIN dir |-> [dir[k] EXCEPT !.name = NFD(@)]]
            r2 == find_files(d2, NFD(keyword))
        IN  /\ result = Matching(dir, keyword)
            /\ result = find_files(dir, keyword)
            /\ \A k \in DOMAIN dir : (dir[k] \in Range(result)) <=> (d2[k] \in Range(r2))
            /\ (dir = <<File(A1), File(X1)>> /\ keyword \in {KW_ENV, KW_ENV_NFD})
                  => result = <<File(A1)>>

\* the example of the claim, with the keyword stored decomposed
C3_Witness ==
    /\ pc = "found"
    /\ dir = <<File(A1), File(X1)>>
    /\ keyword = KW_ENV_NFD
    /\ result = <<File(A1)>>

(* C4 (as claimed): when the growth join has run, every growth record has  *)
(* a configured site and its EC is the site's SCHOOL_EC value; a record of *)
(* a site that is not configured makes the run fail instead.               *)
C4_JoinIntegrity ==
    pc = "done" =>
        \A k \in DOMAIN grow_all.rows :
            /\ grow_all.rows[k].school \in DOMAIN SCHOOL_EC
            /\ grow_all.rows[k].EC = Float(SCHOOL_EC[grow_all.rows[k].school])

C6_SiteIdsNormalized ==
    /\ \A S \in DOMAIN env_data.tab :
          /\ S = normalize_text(S)
          /\ \A k \in DOMAIN env_data.tab[S].rows :
                env_data.tab[S].rows[k].school = normalize_text(S)
    /\ \A S \in DOMAIN grow_data.tab :
          /\ S = normalize_text(S)
          /\ \A k \in DOMAIN grow_data.tab[S].rows :
                grow_data.tab[S].rows[k].school = normalize_text(S)

----------------------------------------------------------------------------
(* The EC groups stated on the growth mapping: the weights of the records  *)
(* of the sites whose configured EC is e.                                  *)
RECURSIVE WeightsOf(_, _)
WeightsOf(frames, e) ==
    IF frames = <<>> THEN <<>>
    ELSE LET df == Head(frames)
             here == IF df.rows # <<>>
                        /\ df.rows[1].school \in DOMAIN SCHOOL_EC
                        /\ SCHOOL_EC[df.rows[1].school] = e
                     THEN [n \in DOMAIN df.rows |-> df.rows[n].weight]
                     ELSE <<>>
         IN  here \o WeightsOf(Tail(frames), e)

ConfiguredECs == {SCHOOL_EC[k] : k \in DOMAIN SCHOOL_EC}

GroupMeans == {mean(WeightsOf(values(grow_data), e)) : e \in ConfiguredECs} \ {NaN}

LargestGroupMean ==
    IF GroupMeans = {} THEN NaN
    ELSE CHOOSE m \in GroupMeans : \A x \in GroupMeans : ~Less(m, x)

AllWeights == column(concat(values(grow_data)), "weight")

(* C8: the reported best value is the largest of the means of fresh weight *)
(* of the EC groups, each record grouped by its site's configured EC; for  *)
(* the groups 1.0: [1,2,3], 2.0: [5,6,7], 4.0: [2,2] it is 6.0 ("6.00").   *)
C8_MaxOfGroupMeans ==
    pc = "done" =>
        /\ best_val = LargestGroupMean
        /\ metric_text = fmt2(LargestGroupMean)
        /\ {ec_mean[n].EC : n \in DOMAIN ec_mean} =
              {Float(e) : e \in {x \in ConfiguredECs : WeightsOf(values(grow_data), x) # <<>>}}
        /\ \A n \in DOMAIN ec_mean :
              ec_mean[n].weight = mean(WeightsOf(values(grow_data), ec_mean[n].EC.num))
        /\ (/\ grow_data.keys = <<Songdo, Haneul, Ara>>
            /\ column(grow_data.tab[Songdo], "weight") = <<1, 2, 3>>
            /\ column(grow_data.tab[Haneul], "weight") = <<5, 6, 7>>
            /\ column(grow_data.tab[Ara], "weight") = <<2, 2>>)
           => best_val = Float(6) /\ metric_text = [nan |-> FALSE, cents |-> 600]

\* two EC groups, and the best value is neither the largest weight nor the mean
\* of all the weights
C8_Witness ==
    /\ pc = "done"
    /\ Len(ec_mean) >= 2
    /\ ~best_val.nan
    /\ best_val # series_max([k \in DOMAIN AllWeights |-> Float(AllWeights[k])])
    /\ best_val # mean(AllWeights)
    /\ best_val = LargestGroupMean

(* C9: once the loaders have returned, no step changes the environment     *)
(* mapping or the growth mapping: keys, rows and columns stay as loaded.   *)
C9_LoadedTablesUnchanged ==
    [][GrowLoaded => (env_data' = env_data /\ grow_data' = grow_data)]_vars

\* a run ended after the join and both exports, and the EC column is in the
\* combined table only
C9_Witness ==
    /\ pc = "done"
    /\ school_option # ALL
    /\ raw.rows # <<>>
    /\ grow_all.rows # <<>>
    /\ "EC" \in grow_all.cols
    /\ \A S \in DOMAIN grow_data.tab : "EC" \notin grow_data.tab[S].cols
    /\ env_data = load_environment_data(dir)
    /\ grow_data = load_growth_data(dir)

====
